---- MODULE Spec2Model ----
(***************************************************************************)
(* A model of the legislator data clean-up scripts:                        *)
(*   update_legislator_data.py  process_legislator_pipeline, remove_accents *)
(*   remove_accents.py          remove_accents (the stand-alone definition) *)
(*   remove_statenm_column.py   remove_statenm_column                       *)
(* A run of one of the three programs is a behaviour: Init chooses the     *)
(* program and its input files, the actions are the program's steps.       *)
(***************************************************************************)
EXTENDS Integers, Sequences, FiniteSets, TLC

VARIABLES
    prog,             \* which program runs: "pipeline", "remove_accents", "remove_statenm"
    pc,               \* the position of the run
    mcatts_df,        \* the loaded target table (pipeline), the loaded table (remove_statenm)
    legislators_df,   \* the loaded reference table
    mcatts_updated,   \* the copy step 1 modifies (df_step1_output)
    idx,              \* iterrows: the number of target rows already visited
    non_matches,      \* the non-match report, a sequence of <<id, cong, mc.name>>
    df_step2_output,  \* the table after applymap(remove_accents)
    output,           \* the output file: NoFile, or the table written
    exit_status,      \* -1 while running, 0 after a normal end, 1 after sys.exit(1)
    warned,           \* the statenm warning was printed
    defn,             \* remove_accents: the definition called ("guarded" or "bare")
    arg,              \* remove_accents: the value passed
    result,           \* remove_accents: the value returned by the last call
    raised            \* remove_accents: the call raised to its caller

vars == <<prog, pc, mcatts_df, legislators_df, mcatts_updated, idx, non_matches,
          df_step2_output, output, exit_status, warned, defn, arg, result, raised>>

(***************************************************************************)
(* Bounds of the model.                                                    *)
(***************************************************************************)
MaxLen == 2        \* longest text passed to remove_accents on its own
MaxRows == 2       \* most rows of the target table
MaxRefRows == 2    \* most rows of the reference table

(***************************************************************************)
(* Cell values: text (a sequence of code points), a number, or the         *)
(* missing marker (NaN).  All three carry a sequence so that any two cells *)
(* can be compared.                                                        *)
(***************************************************************************)
Text(s) == [t |-> "text", v |-> s]
Num(n) == [t |-> "num", v |-> <<n>>]
NaN == [t |-> "nan", v |-> <<>>]
isinstance_str(x) == x.t = "text"

(***************************************************************************)
(* The characters of the model, by code point, with their properties in    *)
(* the Unicode character database that unicodedata reads:                  *)
(*    97 a, 65 A, 32 SPACE               no decomposition, class 0         *)
(*   226 a with circumflex               canonical  97 770                 *)
(*  7841 a with dot below                canonical  97 803                 *)
(*  7853 a with circumflex and dot below canonical  7841 770               *)
(*   160 NO-BREAK SPACE                  compatibility  32                 *)
(*   770 COMBINING CIRCUMFLEX ACCENT     Mn, combining class 230           *)
(*   803 COMBINING DOT BELOW             Mn, combining class 220           *)
(*  2305 DEVANAGARI SIGN CANDRABINDU     Mn, combining class 0             *)
(***************************************************************************)
Chars == {97, 65, 32, 226, 7853, 160, 770, 803, 2305}

\* unicodedata.combining(c): the canonical combining class of c
combining(c) ==
    CASE c = 770 -> 230
      [] c = 803 -> 220
      [] OTHER -> 0

\* one decomposition mapping of the character database (canonical or compatibility)
Decomposition(c) ==
    CASE c = 226 -> <<97, 770>>
      [] c = 7841 -> <<97, 803>>
      [] c = 7853 -> <<7841, 770>>
      [] c = 160 -> <<32>>
      [] OTHER -> <<c>>

RECURSIVE Flatten(_)
Flatten(ss) == IF ss = <<>> THEN <<>> ELSE Head(ss) \o Flatten(Tail(ss))

\* a mutant of FullDecomp: the character's own mapping, not applied again to
\* the characters it yields
OneLevelDecomp(c) == Decomposition(c)

\* the full (recursive) compatibility decomposition of one character
RECURSIVE FullDecomp(_)
FullDecomp(c) ==
    LET d == Decomposition(c)
    IN  IF d = <<c>> THEN d ELSE Flatten([i \in 1..Len(d) |-> FullDecomp(d[i])])

\* canonical ordering: adjacent marks of non-zero class are sorted by class
RECURSIVE Reorder(_)
Reorder(s) ==
    LET bad == {i \in 1..(Len(s) - 1) :
                  combining(s[i + 1]) # 0 /\ combining(s[i]) > combining(s[i + 1])}
    IN  IF bad = {} THEN s
        ELSE LET i == CHOOSE k \in bad : \A m \in bad : k <= m
             IN  Reorder([s EXCEPT ![i] = s[i + 1], ![i + 1] = s[i]])

\* unicodedata.normalize('NFKD', text)
NFKD(s) == Reorder(Flatten([i \in 1..Len(s) |-> FullDecomp(s[i])]))

\* a mutant of keep: the filter by general category Mn instead of combining class
keep_not_Mn(c) == c \notin {770, 803, 2305}

\* the filter of the list comprehension: not unicodedata.combining(c)
keep(c) == combining(c) = 0

\* ''.join([c for c in normalized_text if not unicodedata.combining(c)])
strip_marks(s) == SelectSeq(s, keep)

\* remove_accents of update_legislator_data.py: non-text is returned as given.
\* normalize and combining accept every str, so the except branch of lines
\* 26-28 is never taken and has no counterpart here
remove_accents_guarded(x) ==
    IF ~isinstance_str(x) THEN x ELSE Text(strip_marks(NFKD(x.v)))

\* remove_accents of remove_accents.py: no isinstance test; normalize raises
\* TypeError on a value that is not a str, and nothing catches it
remove_accents_bare_raises(x) == ~isinstance_str(x)
remove_accents_bare(x) == Text(strip_marks(NFKD(x.v)))

(***************************************************************************)
(* Tables.  A table is its set of column names and its sequence of rows;   *)
(* a row maps every column name to a cell.                                 *)
(***************************************************************************)
Table(cols, rows) == [cols |-> cols, rows |-> rows]
EmptyTable == Table({}, <<>>)
NoFile == [written |-> FALSE, table |-> EmptyTable]
File(tbl) == [written |-> TRUE, table |-> tbl]

Rep(c, n) == [j \in 1..n |-> c]

\* the input files as read_csv returns them (a missing file, FileNotFoundError,
\* is left out): the keys are chosen freely, the other cells differ from row
\* to row and between the two tables, and carry accents
Ids == {1, 2}
Congresses == {103, 104}
TargetCols == {"id", "cong", "mc.name", "state", "statenm", "party"}
RefCols == {"icpsr", "congress", "bioname", "state_abbrev"}
TargetSchemas ==
    {TargetCols} \cup {TargetCols \ {c} : c \in {"statenm", "mc.name", "state", "id", "cong"}}
RefSchemas ==
    {RefCols, RefCols \cup {"statenm"}}
      \cup {RefCols \ {c} : c \in {"bioname", "state_abbrev", "icpsr", "congress"}}

TargetCell(c, i, key) ==
    CASE c = "id" -> Num(key[1])
      [] c = "cong" -> Num(key[2])
      [] c = "mc.name" -> Text(<<65>> \o Rep(226, i))
      [] c = "state" -> Text(<<65, 803>>)
      [] c = "statenm" -> Text(<<65, 97, 770>> \o Rep(97, i))
      [] OTHER -> Num(100 * i)

RefCell(c, j, key) ==
    CASE c = "icpsr" -> Num(key[1])
      [] c = "congress" -> Num(key[2])
      [] c = "bioname" -> Text(<<65, 7853>> \o Rep(97, j))
      [] c = "state_abbrev" -> Text(<<65, 65, 770>> \o Rep(65, j))
      [] OTHER -> Text(<<97, 160>> \o Rep(65, j))

TargetTables ==
    {Table(cols, [i \in 1..n |-> [c \in cols |-> TargetCell(c, i, keys[i])]]) :
        <<cols, n, keys>> \in
            UNION {{<<cs, m, f>> : f \in [1..m -> Ids \X Congresses]} :
                       <<cs, m>> \in TargetSchemas \X (0..MaxRows)}}

RefTables ==
    {Table(cols, [j \in 1..n |-> [c \in cols |-> RefCell(c, j, keys[j])]]) :
        <<cols, n, keys>> \in
            UNION {{<<cs, m, f>> : f \in [1..m -> Ids \X Congresses]} :
                       <<cs, m>> \in RefSchemas \X (0..MaxRefRows)}}

RECURSIVE TextsUpTo(_)
TextsUpTo(n) ==
    IF n = 0 THEN {<<>>}
    ELSE LET shorter == TextsUpTo(n - 1)
         IN  shorter \cup {Append(s, c) : s \in {t \in shorter : Len(t) = n - 1}, c \in Chars}

Values == {Text(s) : s \in TextsUpTo(MaxLen)} \cup {Num(0), Num(5), NaN}

(***************************************************************************)
(* Step 1 of process_legislator_pipeline: the matching pass.               *)
(***************************************************************************)
\* lookup_key = (row['id'], row['cong'])
lookup_key(row) == <<row["id"], row["cong"]>>

\* set_index(['icpsr', 'congress']): the two columns leave the columns of a row
IndexCols == {"icpsr", "congress"}
DataOf(df, j) == [c \in df.cols \ IndexCols |-> df.rows[j][c]]

\* legislators_df.loc[lookup_key]: the rows of that key, in table order; none
\* is the KeyError of line 81
loc(df, key) ==
    LET hits == SelectSeq([j \in 1..Len(df.rows) |-> j],
                          LAMBDA j : <<df.rows[j]["icpsr"], df.rows[j]["congress"]>> = key)
    IN  [k \in 1..Len(hits) |-> DataOf(df, hits[k])]

\* a mutant of match_iloc0: the last row of a repeated key
match_iloc_last(match) == match[Len(match)]

\* match.iloc[0] of a DataFrame (a repeated key), the Series itself otherwise
match_iloc0(match) == Head(match)

\* mcatts_updated.at[index, col] = val; a column the table lacks is added,
\* missing in the other rows
at_set(tbl, i, col, val) ==
    IF col \in tbl.cols
    THEN Table(tbl.cols, [tbl.rows EXCEPT ![i][col] = val])
    ELSE Table(tbl.cols \cup {col},
               [k \in 1..Len(tbl.rows) |->
                   [c \in tbl.cols \cup {col} |->
                       IF c # col THEN tbl.rows[k][c]
                       ELSE IF k = i THEN val ELSE NaN]])

\* a mutant of copies_statenm: statenm is never copied
never_copies_statenm(match_data) == FALSE

\* if 'statenm' in match_data
copies_statenm(match_data) == "statenm" \in DOMAIN match_data

\* lines 75-79: the assignments in order; subscripting match_data by a column
\* it lacks raises KeyError and ends them
Override(tbl, i, match_data) ==
    IF "bioname" \notin DOMAIN match_data THEN [tbl |-> tbl, keyerror |-> TRUE]
    ELSE LET t1 == at_set(tbl, i, "mc.name", match_data["bioname"])
         IN  IF "state_abbrev" \notin DOMAIN match_data THEN [tbl |-> t1, keyerror |-> TRUE]
             ELSE LET t2 == at_set(t1, i, "state", match_data["state_abbrev"])
                  IN  IF copies_statenm(match_data)
                      THEN [tbl |-> at_set(t2, i, "statenm", match_data["statenm"]),
                            keyerror |-> FALSE]
                      ELSE [tbl |-> t2, keyerror |-> FALSE]

\* the body of the try of lines 64-79 for row i
TryRow(tbl, i, row) ==
    LET match == loc(legislators_df, lookup_key(row))
    IN  IF match = <<>> THEN [tbl |-> tbl, keyerror |-> TRUE]
        ELSE Override(tbl, i, match_iloc0(match))

\* a mutant of applymap: only the mc.name column is normalised
applymap_name_only(tbl) ==
    Table(tbl.cols,
          [k \in 1..Len(tbl.rows) |->
              [c \in tbl.cols |-> IF c = "mc.name"
                                  THEN remove_accents_guarded(tbl.rows[k][c])
                                  ELSE tbl.rows[k][c]]])

\* df_step1_output.applymap(remove_accents): every cell, not the header
applymap(tbl) ==
    Table(tbl.cols,
          [k \in 1..Len(tbl.rows) |->
              [c \in tbl.cols |-> remove_accents_guarded(tbl.rows[k][c])]])

\* df.drop(columns=['statenm'])
drop_statenm(tbl) ==
    Table(tbl.cols \ {"statenm"},
          [k \in 1..Len(tbl.rows) |-> [c \in tbl.cols \ {"statenm"} |-> tbl.rows[k][c]]])

(***************************************************************************)
(* The initial states: a program and its inputs.                           *)
(***************************************************************************)
InitPipeline ==
    /\ prog = "pipeline"
    /\ pc = "set_index"
    /\ mcatts_df \in TargetTables
    /\ legislators_df \in RefTables
    /\ mcatts_updated = mcatts_df
    /\ defn = "guarded" /\ arg = NaN

InitRemoveStatenm ==
    /\ prog = "remove_statenm"
    /\ pc = "prune"
    /\ mcatts_df \in TargetTables
    /\ legislators_df = EmptyTable
    /\ mcatts_updated = EmptyTable
    /\ defn = "guarded" /\ arg = NaN

InitRemoveAccents ==
    /\ prog = "remove_accents"
    /\ pc = "call"
    /\ mcatts_df = EmptyTable
    /\ legislators_df = EmptyTable
    /\ mcatts_updated = EmptyTable
    /\ defn \in {"guarded", "bare"}
    /\ arg \in Values

Init ==
    /\ (InitPipeline \/ InitRemoveStatenm \/ InitRemoveAccents)
    /\ idx = 0
    /\ non_matches = <<>>
    /\ df_step2_output = EmptyTable
    /\ output = NoFile
    /\ exit_status = -1
    /\ warned = FALSE
    /\ result = NaN
    /\ raised = FALSE

(***************************************************************************)
(* process_legislator_pipeline                                             *)
(***************************************************************************)
\* the except clauses of lines 123-131: sys.exit(1), nothing written
Abort ==
    /\ pc' = "exited"
    /\ exit_status' = 1
    /\ UNCHANGED <<prog, mcatts_df, legislators_df, mcatts_updated, idx, non_matches,
                   df_step2_output, output, warned, defn, arg, result, raised>>

\* line 60: set_index raises KeyError when a key column is absent
SetIndex ==
    /\ prog = "pipeline" /\ pc = "set_index"
    /\ IF IndexCols \subseteq legislators_df.cols
       THEN /\ pc' = "iterrows"
            /\ UNCHANGED <<prog, mcatts_df, legislators_df, mcatts_updated, idx,
                           non_matches, df_step2_output, output, exit_status, warned,
                           defn, arg, result, raised>>
       ELSE Abort

\* lines 62-83: one iteration of the loop.  iterrows hands out the rows as
\* they were when the loop began, which are those of mcatts_df
Step1Row ==
    /\ prog = "pipeline" /\ pc = "iterrows"
    /\ idx < Len(mcatts_df.rows)
    /\ LET i == idx + 1
           row == mcatts_df.rows[i]
       IN  IF ~({"id", "cong"} \subseteq DOMAIN row) THEN Abort
           ELSE LET r == TryRow(mcatts_updated, i, row)
                IN  IF r.keyerror /\ "mc.name" \notin DOMAIN row THEN Abort
                    ELSE /\ mcatts_updated' = r.tbl
                         /\ non_matches' =
                               IF r.keyerror
                               THEN Append(non_matches,
                                           <<row["id"], row["cong"], row["mc.name"]>>)
                               ELSE non_matches
                         /\ idx' = i
                         /\ UNCHANGED <<prog, pc, mcatts_df, legislators_df,
                                        df_step2_output, output, exit_status, warned,
                                        defn, arg, result, raised>>

\* lines 85-98: the report is printed, step 1 ends
Step1Done ==
    /\ prog = "pipeline" /\ pc = "iterrows"
    /\ idx = Len(mcatts_df.rows)
    /\ pc' = "step2"
    /\ UNCHANGED <<prog, mcatts_df, legislators_df, mcatts_updated, idx, non_matches,
                   df_step2_output, output, exit_status, warned, defn, arg, result, raised>>

\* lines 100-105
Step2 ==
    /\ prog = "pipeline" /\ pc = "step2"
    /\ df_step2_output' = applymap(mcatts_updated)
    /\ pc' = "step3"
    /\ UNCHANGED <<prog, mcatts_df, legislators_df, mcatts_updated, idx, non_matches,
                   output, exit_status, warned, defn, arg, result, raised>>

\* lines 107-121: the column is dropped when present, the table is written
Step3Save ==
    /\ prog = "pipeline" /\ pc = "step3"
    /\ IF "statenm" \notin df_step2_output.cols
       THEN /\ warned' = TRUE
            /\ output' = File(df_step2_output)
       ELSE /\ warned' = FALSE
            /\ output' = File(drop_statenm(df_step2_output))
    /\ pc' = "saved"
    /\ exit_status' = 0
    /\ UNCHANGED <<prog, mcatts_df, legislators_df, mcatts_updated, idx, non_matches,
                   df_step2_output, defn, arg, result, raised>>

(***************************************************************************)
(* remove_statenm_column of remove_statenm_column.py                       *)
(***************************************************************************)
\* lines 14-30: without the column the function warns and returns before to_csv
RemoveStatenmColumn ==
    /\ prog = "remove_statenm" /\ pc = "prune"
    /\ IF "statenm" \notin mcatts_df.cols
       THEN /\ warned' = TRUE
            /\ output' = output
            /\ pc' = "returned"
       ELSE /\ warned' = FALSE
            /\ output' = File(drop_statenm(mcatts_df))
            /\ pc' = "saved"
    /\ exit_status' = 0
    /\ UNCHANGED <<prog, mcatts_df, legislators_df, mcatts_updated, idx, non_matches,
                   df_step2_output, defn, arg, result, raised>>

(***************************************************************************)
(* remove_accents, either definition, called on a value and again on what  *)
(* it returned                                                             *)
(***************************************************************************)
Apply(x) ==
    IF defn = "guarded" THEN [raised |-> FALSE, value |-> remove_accents_guarded(x)]
    ELSE IF remove_accents_bare_raises(x) THEN [raised |-> TRUE, value |-> NaN]
    ELSE [raised |-> FALSE, value |-> remove_accents_bare(x)]

CallRemoveAccents ==
    /\ prog = "remove_accents" /\ pc = "call"
    /\ raised' = Apply(arg).raised
    /\ result' = Apply(arg).value
    /\ pc' = IF Apply(arg).raised THEN "raised" ELSE "returned"
    /\ UNCHANGED <<prog, mcatts_df, legislators_df, mcatts_updated, idx, non_matches,
                   df_step2_output, output, exit_status, warned, defn, arg>>

CallAgain ==
    /\ prog = "remove_accents" /\ pc = "returned"
    /\ raised' = Apply(result).raised
    /\ result' = Apply(result).value
    /\ pc' = IF Apply(result).raised THEN "raised" ELSE "returned_twice"
    /\ UNCHANGED <<prog, mcatts_df, legislators_df, mcatts_updated, idx, non_matches,
                   df_step2_output, output, exit_status, warned, defn, arg>>

Next ==
    \/ SetIndex
    \/ Step1Row
    \/ Step1Done
    \/ Step2
    \/ Step3Save
    \/ RemoveStatenmColumn
    \/ CallRemoveAccents
    \/ CallAgain

Spec == Init /\ [][Next]_vars

(***************************************************************************)
(* The claims.                                                             *)
(***************************************************************************)
Step1Over == prog = "pipeline" /\ pc \in {"step2", "step3", "saved"}
Completed == prog = "pipeline" /\ pc = "saved"
NRows == Len(mcatts_df.rows)
Loaded(i) == mcatts_df.rows[i]
Updated(i) == mcatts_updated.rows[i]
\* the reference rows of target row i's key, in reference-table order
RefRowsOf(i) == loc(legislators_df, lookup_key(Loaded(i)))
KeyPresent(i) == RefRowsOf(i) # <<>>
RefHas(c) == c \in legislators_df.cols
Reported(i) ==
    /\ "mc.name" \in mcatts_df.cols
    /\ \E k \in 1..Len(non_matches) :
          non_matches[k] = <<Loaded(i)["id"], Loaded(i)["cong"], Loaded(i)["mc.name"]>>
WellFormedInputs ==
    /\ {"id", "cong", "mc.name", "state"} \subseteq mcatts_df.cols
    /\ {"icpsr", "congress", "bioname", "state_abbrev"} \subseteq legislators_df.cols

RECURSIVE ExpectedReport(_)
ExpectedReport(n) ==
    IF n = 0 THEN <<>>
    ELSE IF KeyPresent(n) THEN ExpectedReport(n - 1)
    ELSE Append(ExpectedReport(n - 1),
                <<Loaded(n)["id"], Loaded(n)["cong"], Loaded(n)["mc.name"]>>)

\* C1 (as claimed): after a completed run the non-match report is exactly the
\* records (id, cong, mc.name) of the target rows whose key has no row in the
\* reference table, one each, in target row order.
C1_ReportIsExactlyTheUnmatchedRows ==
    Completed => non_matches = ExpectedReport(NRows)

\* C2 (as claimed): at the end of step 1 every target row that has a
\* non-match record has all its loaded cells unchanged in mcatts_updated,
\* whatever columns the reference table has.
C2_ReportedRowsUnmodified ==
    Step1Over =>
        \A i \in 1..NRows :
            Reported(i) => \A c \in mcatts_df.cols : Updated(i)[c] = Loaded(i)[c]

\* C3 (as claimed), for input tables that have every column the claim names:
\* a row whose key is present gets mc.name and state from the reference row
\* and keeps every other column; every other row keeps every cell.
C3_OnlyNameAndStateChange ==
    (Step1Over /\ WellFormedInputs) =>
        \A i \in 1..NRows :
            IF KeyPresent(i)
            THEN /\ Updated(i)["mc.name"] = Head(RefRowsOf(i))["bioname"]
                 /\ Updated(i)["state"] = Head(RefRowsOf(i))["state_abbrev"]
                 /\ \A c \in mcatts_df.cols \ {"mc.name", "state"} :
                        Updated(i)[c] = Loaded(i)[c]
            ELSE \A c \in mcatts_df.cols : Updated(i)[c] = Loaded(i)[c]

\* the target columns the pass writes for a matched row, given the columns of
\* the reference table: the copies are made in the order mc.name, state,
\* statenm, each from a reference column, and end at the first absent one
SourceOf(c) ==
    CASE c = "mc.name" -> "bioname"
      [] c = "state" -> "state_abbrev"
      [] c = "statenm" -> "statenm"
Written ==
    IF ~RefHas("bioname") THEN {}
    ELSE IF ~RefHas("state_abbrev") THEN {"mc.name"}
    ELSE IF ~RefHas("statenm") THEN {"mc.name", "state"}
    ELSE {"mc.name", "state", "statenm"}

\* C3 (amended): a row whose key is present gets mc.name from bioname, state
\* from state_abbrev and, when the reference table has a statenm column,
\* statenm from statenm, all of the first reference row of that key; it keeps
\* every other column, and every other row keeps every cell.
C3_NameStateAndStatenmChange ==
    Step1Over =>
        \A i \in 1..NRows :
            IF KeyPresent(i)
            THEN /\ \A c \in Written :
                        /\ c \in DOMAIN Updated(i)
                        /\ Updated(i)[c] = Head(RefRowsOf(i))[SourceOf(c)]
                 /\ \A c \in mcatts_df.cols \ Written : Updated(i)[c] = Loaded(i)[c]
            ELSE \A c \in mcatts_df.cols : Updated(i)[c] = Loaded(i)[c]

\* C3's case: a matched row of a table with a statenm column received the
\* reference row's statenm beside its bioname and state_abbrev
C3_Witness ==
    /\ Step1Over /\ WellFormedInputs /\ RefHas("statenm")
    /\ "statenm" \in mcatts_df.cols
    /\ \E i \in 1..NRows :
          /\ KeyPresent(i)
          /\ Updated(i)["statenm"] # Loaded(i)["statenm"]
          /\ Updated(i)["party"] = Loaded(i)["party"]
    /\ \E i \in 1..NRows : ~KeyPresent(i)

\* C4 (as claimed): with a key repeated in the reference table the row that
\* overrides is the last of that key in reference-table order.
C4_LastRowWins ==
    (Step1Over /\ WellFormedInputs) =>
        \A i \in 1..NRows :
            KeyPresent(i) =>
                LET m == RefRowsOf(i)
                IN  /\ Updated(i)["mc.name"] = m[Len(m)]["bioname"]
                    /\ Updated(i)["state"] = m[Len(m)]["state_abbrev"]

\* C4 (amended): with a key repeated in the reference table the row that
\* overrides is the first of that key in reference-table order.
C4_FirstRowWins ==
    Step1Over =>
        \A i \in 1..NRows :
            KeyPresent(i) =>
                \A c \in Written :
                    /\ c \in DOMAIN Updated(i)
                    /\ Updated(i)[c] = RefRowsOf(i)[1][SourceOf(c)]

\* C4's case: a target row was overridden whose key two reference rows carry,
\* with different bioname
C4_Witness ==
    /\ Step1Over /\ WellFormedInputs
    /\ \E i \in 1..NRows :
          /\ Len(RefRowsOf(i)) >= 2
          /\ RefRowsOf(i)[1]["bioname"] # RefRowsOf(i)[2]["bioname"]
          /\ Updated(i)["mc.name"] # Loaded(i)["mc.name"]

RequiredColumnMissing ==
    \/ ~({"id", "cong", "mc.name"} \subseteq mcatts_df.cols)
    \/ ~({"icpsr", "congress", "bioname", "state_abbrev"} \subseteq legislators_df.cols)

\* a non-match record was appended for a visited row whose key the reference
\* table holds
MissRecordedForPresentKey ==
    /\ {"id", "cong"} \subseteq mcatts_df.cols
    /\ IndexCols \subseteq legislators_df.cols
    /\ \E i \in 1..idx : Reported(i) /\ KeyPresent(i)

\* C5 (as claimed): with a required column absent from either table the run
\* never ends normally, never writes the output file and never records the
\* absence as a match miss.
C5_MissingColumnAborts ==
    (prog = "pipeline" /\ RequiredColumnMissing) =>
        /\ ~output.written
        /\ exit_status # 0
        /\ ~MissRecordedForPresentKey

NoCombiningMark(s) == \A k \in 1..Len(s) : combining(s[k]) = 0
Undecomposed(s) == \A k \in 1..Len(s) : Decomposition(s[k]) = <<s[k]>>
Returned == prog = "remove_accents" /\ pc = "returned"

\* C6 (as claimed): a text without combining marks is returned as given.
C6_NoMarkTextUnchanged ==
    (Returned /\ isinstance_str(arg) /\ NoCombiningMark(arg.v)) => result = arg

\* C6 (amended): a text without combining marks and without characters that
\* have a canonical or compatibility decomposition is returned as given.
C6_PlainTextUnchanged ==
    (Returned /\ isinstance_str(arg) /\ NoCombiningMark(arg.v) /\ Undecomposed(arg.v))
        => result = arg

\* C6's case: a mixed-case text of plain letters, a space and a mark of class 0
\* went through either definition
C6_Witness ==
    /\ Returned /\ arg \in {Text(<<65, 97>>), Text(<<32, 2305>>)}
    /\ result = arg

\* C7: remove_accents is idempotent on text: applied to its own result it
\* returns that result.
C7_Idempotent ==
    [][(prog = "remove_accents" /\ pc = "returned" /\ pc' = "returned_twice"
          /\ isinstance_str(arg)) => result' = result]_vars

\* C7's case: a text the first call changed went through the second call
C7_Witness ==
    /\ prog = "remove_accents" /\ pc = "returned_twice"
    /\ arg = Text(<<7853, 803>>)
    /\ result = Text(<<97>>)

\* C8 (as claimed): either definition returns a value that is not text as
\* given and raises nothing.
C8_NonTextReturnedUnchanged ==
    (prog = "remove_accents" /\ pc # "call" /\ ~isinstance_str(arg)) =>
        (~raised /\ result = arg)

\* C9 (as claimed): without a statenm column the prune step warns, does not
\* abort and writes its input table unchanged, in the pipeline and in
\* remove_statenm_column alike.
C9_PruneWithoutColumnWritesInput ==
    /\ (Completed /\ "statenm" \notin df_step2_output.cols) =>
          (warned /\ exit_status = 0 /\ output = File(df_step2_output))
    /\ (prog = "remove_statenm" /\ pc # "prune" /\ "statenm" \notin mcatts_df.cols) =>
          (warned /\ exit_status = 0 /\ output = File(mcatts_df))

TextCells(tbl) ==
    {tbl.rows[k][c] : k \in 1..Len(tbl.rows), c \in tbl.cols} \cap
        {x \in {tbl.rows[k][c] : k \in 1..Len(tbl.rows), c \in tbl.cols} : isinstance_str(x)}

====
